---- MODULE Spec2Model ----
(***************************************************************************)
(* State-machine model of the DesignSpark ESDK main-board orchestrator     *)
(* (DesignSpark/ESDK/MAIN.py, class ModMAIN) and of the sensor drivers it  *)
(* constructs and reads.                                                   *)
(*                                                                         *)
(* The orchestrator's operations are modelled as atomic actions, each the  *)
(* whole method.  Four specifications share the variables:                 *)
(*   SpecProbe  _probeModules run repeatedly against a changing bus        *)
(*   Spec       createModules (probe + construction) run repeatedly        *)
(*   SpecRead   readAllModules against changing sensors and plugins        *)
(*   SpecLoad   loadPlugins over a plugin directory                        *)
(* The NO2 driver (DesignSpark/ESDK/NO2.py, class ModNO2) is modelled with *)
(* its acquisition thread, one step per ADC channel read:                  *)
(*   SpecAverage  _calculateMovingAverage applied to any run of pushes     *)
(*   SpecNO2      the acquisition thread and readNO2, gas level constant   *)
(*   SpecBatch    the acquisition thread over every batch of gas readings  *)
(***************************************************************************)
EXTENDS Integers, Sequences, FiniteSets, TLC

VARIABLES
    bus,              \* addresses of the devices answering on the I2C bus at the last probe
    moduleNames,      \* self.moduleNames: names discovered by the last probe
    probeLog,         \* bus writes issued by the last probe, in order, with their outcome
    prevModuleNames,  \* self.moduleNames as it was when the last probe started
    probeRuns,        \* number of _probeModules runs so far
    sensorModules,    \* self.sensorModules: insertion-ordered dict name -> driver instance
    constructed,      \* per name: number of driver instances whose constructor completed
    adcThreads,       \* number of NO2 acquisition threads started so far
    ctorRaised,       \* names whose constructor raised during the last createModules
    createCalls,      \* number of createModules calls so far
    pluginFiles,      \* content of the plugin directory, in os.listdir order
    pluginsModuleList,\* self.pluginsModuleList: loaded plugin modules
    plugins,          \* self.plugins: instantiated plugin objects (by class name)
    reported,         \* counts written by "Loaded {} plugin(s)" in the last loadPlugins
    loadCalls,        \* number of loadPlugins calls so far
    sensorState,      \* per driver / plugin: what its readSensors does when called now
    sensorData,       \* self.sensorData: the snapshot, a dict category -> reading
    readLog,          \* readSensors calls made by the readAllModules call just returned
    readsInRow,       \* readAllModules calls since the sensors last changed (0, 1, 2 = more)
    raised,           \* whether the call just returned propagated an exception
    movingAverageWindow, \* ModNO2.movingAverageWindow: capacity of the smoothing window
    no2AverageList,   \* ModNO2.no2AverageList: the smoothing window, most recent first
    no2Value,         \* ModNO2.no2Value: the published concentration (in 1/100 ppm)
    threadAt,         \* position of _adcPollingThread: "idle", "vref", "sampling", "dead"
    vref,             \* local vref of the thread (in mV), -1 until acquired
    vgasList,         \* local vgasList of the thread (in mV)
    vgas,             \* local vgas of the thread as the selection step of the last
                      \* completed cycle left it (-1 before); not followed within a cycle
    conc,             \* local conc of the thread: << >> while unbound, else << value >>
    gasLevels,        \* the voltages (mV) the gas channel can show in this run
    refLevel,         \* the voltage (mV) of the reference channel
    samplesTaken,     \* gas readings taken in the current pass of the for loop (i - 1)
    lastReading,      \* the gas reading taken by the last step that took one
    lastOp,           \* what the last step of the driver was
    lastBus,          \* the last transaction the driver issued on the bus
    diedIn,           \* where the thread was when an exception ended it ("" while alive)
    readResult,       \* value returned by the last readNO2 call
    pushed,           \* data points pushed so far (SpecAverage)
    publishedSeq,     \* value published after each of these pushes (SpecAverage)
    sensorsResult,    \* what the last ModNO2.readSensors call returned
    busTxn            \* progress of the bus transactions under way (SpecBus): adc, the
                      \* operations the NO2 thread has issued of its channel read; fg, the
                      \* driver readAllModules is reading (0: none); step, the operations
                      \* that driver has issued

vars == << bus, moduleNames, probeLog, prevModuleNames, probeRuns,
           sensorModules, constructed, adcThreads, ctorRaised, createCalls,
           pluginFiles, pluginsModuleList, plugins, reported, loadCalls,
           sensorState, sensorData, readLog, readsInRow, raised,
           movingAverageWindow, no2AverageList, no2Value, threadAt, vref, vgasList,
           vgas, conc, gasLevels, refLevel, samplesTaken, lastReading, lastOp,
           lastBus, diedIn, readResult, pushed, publishedSeq, sensorsResult, busTxn >>

probeVars  == << bus, moduleNames, probeLog, prevModuleNames, probeRuns >>
createVars == << sensorModules, constructed, adcThreads, ctorRaised, createCalls >>
loadVars   == << pluginFiles, pluginsModuleList, plugins, reported, loadCalls >>
readVars   == << sensorState, sensorData, readLog, readsInRow >>
mainVars   == << probeVars, createVars, loadVars, readVars, raised >>
windowVars == << movingAverageWindow, no2AverageList, no2Value >>
threadVars == << threadAt, vref, vgasList, vgas, conc, samplesTaken, lastReading, diedIn >>
adcVars    == << gasLevels, refLevel >>
restVars   == << sensorsResult, busTxn >>
no2Vars    == << windowVars, threadVars, adcVars, lastOp, lastBus, readResult,
                 pushed, publishedSeq, restVars >>

-----------------------------------------------------------------------------
(* Bounds of the model *)

\* largest capacity of the smoothing window
MaxWindow == 3
\* most pushes into the smoothing window in SpecAverage
MaxPushes == 4
\* the data points pushed in SpecAverage are 10.00, 20.00, .. up to MaxPoint * 10.00
MaxPoint == 4
\* the concentrations a driver has published at the start of SpecSensors are the whole
\* numbers of ppm from -MaxPpm to MaxPpm
MaxPpm == 1
\* the ADC channels read 0 .. MaxRaw (mV)
MaxRaw == 2
\* most devices fitted on the bus at one time
MaxFitted == 2
\* most _probeModules runs in SpecProbe
MaxProbeRuns == 3
\* most createModules calls in Spec
MaxCreateCalls == 2
\* most files in the plugin directory
MaxFiles == 3
\* most classes a plugin file defines
MaxClasses == 2
\* most loadPlugins calls in SpecLoad
MaxLoadCalls == 2
\* most plugin objects in the registry in SpecRead
MaxPlugins == 2
\* most drivers and plugins read together in SpecRead
MaxSources == 3
\* reading values are 1..MaxVal
MaxVal == 1

-----------------------------------------------------------------------------
(* Generic helpers *)

Range(s) == {s[i] : i \in DOMAIN s}

NoDuplicates(s) == \A i, j \in DOMAIN s : s[i] = s[j] => i = j

\* the elements of sequence s that lie in set S, in the order of s
Restrict(s, S) == SelectSeq(s, LAMBDA x : x \in S)

-----------------------------------------------------------------------------
(* Module registry and prober *)

\* possibleModules: name -> bus address, in declaration (= iteration) order
possibleModules ==
    << [name |-> "THV", addr |-> 68],
       [name |-> "CO2", addr |-> 98],
       [name |-> "PM2", addr |-> 105],
       [name |-> "NO2", addr |-> 64],
       [name |-> "NRD", addr |-> 96],
       [name |-> "FDH", addr |-> 93] >>

\* the registry's names, in declaration order
RegistryNames == [i \in DOMAIN possibleModules |-> possibleModules[i].name]

Names == Range(RegistryNames)

Addresses == {possibleModules[i].addr : i \in DOMAIN possibleModules}

AddrOf(n) == possibleModules[CHOOSE i \in DOMAIN possibleModules : possibleModules[i].name = n].addr

\* the byte _probeModules writes to a module: a reset command for the NO2 ADC, 0 otherwise
ProbeByte(name) == IF name = "NO2" THEN 6 ELSE 0

\* bus.write_byte(addr, byte): TRUE when acknowledged, FALSE when it raises a bus error.
\* The ADC of the NO2 board does not acknowledge a write of 0.
WriteByteAcked(fitted, addr, byte) == addr \in fitted /\ ~(addr = 64 /\ byte = 0)

\* self.moduleNames.clear()
ProbeStartKeep(names) == names
ProbeStart(names) == <<>>

\* one iteration of the probe loop: append the name when the write was acknowledged,
\* swallow the bus error otherwise
ProbeAppendAlways(names, name, acked) == Append(names, name)
ProbeAppend(names, name, acked) == IF acked THEN Append(names, name) ELSE names

RECURSIVE ProbeFrom(_, _, _, _)
ProbeFrom(i, fitted, names, log) ==
    IF i > Len(possibleModules)
    THEN [names |-> names, log |-> log]
    ELSE LET e     == possibleModules[i]
             byte  == ProbeByte(e.name)
             acked == WriteByteAcked(fitted, e.addr, byte)
         IN  ProbeFrom(i + 1, fitted,
                       ProbeAppend(names, e.name, acked),
                       Append(log, [addr |-> e.addr, byte |-> byte, acked |-> acked]))

\* _probeModules: the new moduleNames and the bus writes issued
ProbeResult(old, fitted) == ProbeFrom(1, fitted, ProbeStart(old), <<>>)

\* the bus states considered: at most MaxFitted devices fitted
BusStates == {F \in SUBSET Addresses : Cardinality(F) <= MaxFitted}

\* ModMAIN._probeModules()
ProbeModules ==
    /\ probeRuns < MaxProbeRuns
    /\ \E fitted \in BusStates :
          LET r == ProbeResult(moduleNames, fitted)
          IN  /\ bus' = fitted
              /\ prevModuleNames' = moduleNames
              /\ moduleNames' = r.names
              /\ probeLog' = r.log
    /\ probeRuns' = probeRuns + 1
    /\ raised' = FALSE
    /\ UNCHANGED << createVars, loadVars, readVars, no2Vars >>

-----------------------------------------------------------------------------
(* Driver construction: createModules *)

\* whether the constructor of the driver class can raise.  ModFDH defines "_init__"
\* (one underscore), so ModFDH() runs no code of the driver and cannot raise.
ConstructorCanRaise(n) == n # "FDH"

\* the keys of the sensorModules dict, in iteration order
StoreNames(store) == [i \in DOMAIN store |-> store[i].name]

\* self.sensorModules[name] = instance: a key already held keeps its position
DictSet(store, name, inst) ==
    IF \E i \in DOMAIN store : store[i].name = name
    THEN [i \in DOMAIN store |->
             IF store[i].name = name THEN [name |-> name, inst |-> inst] ELSE store[i]]
    ELSE Append(store, [name |-> name, inst |-> inst])

\* ModNO2.__init__ starts one daemon acquisition thread once the ADC reset succeeded
ThreadsStartedBy(name) == IF name = "NO2" THEN 1 ELSE 0

\* the construction loop of createModules over the discovered names, from position i:
\* a constructor that raises is logged and skipped
RECURSIVE CreateFrom(_, _, _, _, _, _)
CreateFrom(i, names, fails, store, cnt, threads) ==
    IF i > Len(names)
    THEN [store |-> store, cnt |-> cnt, threads |-> threads]
    ELSE LET n == names[i]
         IN  IF n \in fails
             THEN CreateFrom(i + 1, names, fails, store, cnt, threads)
             ELSE CreateFrom(i + 1, names, fails,
                             DictSet(store, n, cnt[n] + 1),
                             [cnt EXCEPT ![n] = cnt[n] + 1],
                             threads + ThreadsStartedBy(n))

\* the constructor outcomes considered for a discovered sequence: any set of the
\* discovered names whose constructor can raise
ConstructorFailures(names) == SUBSET {n \in Range(names) : ConstructorCanRaise(n)}

\* ModMAIN.createModules()
CreateModules ==
    /\ createCalls < MaxCreateCalls
    /\ \E fitted \in BusStates :
          LET p == ProbeResult(moduleNames, fitted)
          IN  \E fails \in ConstructorFailures(p.names) :
                 LET c == CreateFrom(1, p.names, fails, sensorModules, constructed, adcThreads)
                 IN  /\ bus' = fitted
                     /\ prevModuleNames' = moduleNames
                     /\ moduleNames' = p.names
                     /\ probeLog' = p.log
                     /\ ctorRaised' = fails
                     /\ sensorModules' = c.store
                     /\ constructed' = c.cnt
                     /\ adcThreads' = c.threads
    /\ probeRuns' = probeRuns + 1
    /\ createCalls' = createCalls + 1
    /\ raised' = FALSE
    /\ UNCHANGED << loadVars, readVars, no2Vars >>

-----------------------------------------------------------------------------
(* Plugin loader: loadPlugins *)

\* A file of the plugin directory: whether its extension is ".py", whether
\* imp.load_module succeeds on it, and for each class of its namespace (in the order of
\* inspect.getmembers) whether the no-argument constructor succeeds.
PluginFile(py, loads, ctors) == [py |-> py, loads |-> loads, ctors |-> ctors]

\* the name of class j of the file at position i of the directory listing
ClassName(i, j) ==
    << << "A1", "A2", "A3" >>, << "B1", "B2", "B3" >>,
       << "C1", "C2", "C3" >>, << "D1", "D2", "D3" >> >>[i][j]

CtorOutcomes == UNION {[1..k -> BOOLEAN] : k \in 0..MaxClasses}

\* the files considered: not a ".py" file, a ".py" file that fails to load, and ".py"
\* files that load and define up to MaxClasses classes
FileKinds ==
    {PluginFile(FALSE, FALSE, <<>>), PluginFile(TRUE, FALSE, <<>>)}
    \cup {PluginFile(TRUE, TRUE, c) : c \in CtorOutcomes}

Directories == UNION {[1..k -> FileKinds] : k \in 0..MaxFiles}

\* the file the scan of the directory goes to after file i of n: the next one, also
\* when imp.load_module raised on file i (the exception is logged inside the loop)
NextFileAbortOnFailure(i, f, n) == IF f.py /\ ~f.loads THEN n + 1 ELSE i + 1
NextFile(i, f, n) == i + 1

\* first loop of loadPlugins: append every ".py" file that loads to pluginsModuleList
RECURSIVE ScanFrom(_, _, _)
ScanFrom(i, files, mods) ==
    IF i > Len(files)
    THEN mods
    ELSE LET f == files[i]
         IN  ScanFrom(NextFile(i, f, Len(files)), files,
                      IF f.py /\ f.loads THEN Append(mods, i) ELSE mods)

\* second loop of loadPlugins, at class j of entry m of pluginsModuleList: instantiate
\* every class of every listed module; obj() is not guarded, so a constructor that
\* raises ends loadPlugins with the exception
RECURSIVE InstantiateFrom(_, _, _, _, _)
InstantiateFrom(m, j, mods, files, plugs) ==
    IF m > Len(mods)
    THEN [plugins |-> plugs, raised |-> FALSE]
    ELSE IF j > Len(files[mods[m]].ctors)
    THEN InstantiateFrom(m + 1, 1, mods, files, plugs)
    ELSE IF ~files[mods[m]].ctors[j]
    THEN [plugins |-> plugs, raised |-> TRUE]
    ELSE InstantiateFrom(m, j + 1, mods, files, Append(plugs, ClassName(mods[m], j)))

\* loadPlugins on directory content `files`, from pluginsModuleList = mods and
\* plugins = plugs: the new lists, whether it raised, and the counts it logged
LoadResult(files, mods, plugs) ==
    LET scanned == ScanFrom(1, files, mods)
        inst    == InstantiateFrom(1, 1, scanned, files, plugs)
    IN  [mods     |-> scanned,
         plugins  |-> inst.plugins,
         raised   |-> inst.raised,
         reported |-> IF inst.raised THEN <<>> ELSE << Len(inst.plugins) >>]

\* ModMAIN.loadPlugins()
LoadPlugins ==
    /\ loadCalls < MaxLoadCalls
    /\ LET r == LoadResult(pluginFiles, pluginsModuleList, plugins)
       IN  /\ pluginsModuleList' = r.mods
           /\ plugins' = r.plugins
           /\ reported' = r.reported
           /\ raised' = r.raised
    /\ loadCalls' = loadCalls + 1
    /\ UNCHANGED << pluginFiles, probeVars, createVars, readVars, no2Vars >>

-----------------------------------------------------------------------------
(* Aggregate read: readAllModules, and the drivers' readSensors *)

\* moduleVersionString of each driver module
ModuleVersion(n) ==
    CASE n = "THV" -> "THV0.2"
      [] n = "CO2" -> "CO20.2"
      [] n = "PM2" -> "PM20.2"
      [] n = "NO2" -> "NO20.1"
      [] n = "NRD" -> "NRD0.1"
      [] n = "FDH" -> "FDH0.1"
      [] OTHER     -> n

\* the snapshot key under which a driver's readSensors returns its reading; a plugin
\* is taken to report under its class name
Category(n) ==
    CASE n = "THV" -> "thv"
      [] n = "CO2" -> "co2"
      [] n = "PM2" -> "pm"
      [] n = "NO2" -> "no2"
      [] n = "NRD" -> "nrd"
      [] n = "FDH" -> "fdh"
      [] OTHER     -> n

\* What a sensor or plugin does when readSensors is called on it now: it yields a
\* reading with value val, it has no data ready (-1), or a bus transfer raises.
Yields(v)   == [kind |-> "data", val |-> v]
Unavailable == [kind |-> "unavailable", val |-> 0]
Raises      == [kind |-> "raise", val |-> 0]

Values == 1..MaxVal

\* The state of a driver right after construction, of a plugin right after loading:
\* the sensors that signal data-ready have none yet, no2Value is 0, the counters of the
\* NRD board can be read.
InitialState(n) ==
    CASE n = "NO2" -> Yields(0)
      [] n = "NRD" -> Yields(1)
      [] n = "FDH" -> Yields(0)
      [] OTHER     -> Unavailable

\* The states each driver can be in.  ModNO2.readSensors only reads a field, so it never
\* raises; ModNRD.readSensors has no unavailable branch; ModFDH.readSensors makes no
\* bus transfer at all and always decodes the zeroed read buffer.  Plugins are arbitrary.
SourceStates(n) ==
    CASE n \in {"THV", "CO2", "PM2"} -> {Yields(v) : v \in Values} \cup {Unavailable, Raises}
      [] n = "NO2" -> {Yields(0)} \cup {Yields(v) : v \in Values} \cup {Unavailable}
      [] n = "NRD" -> {Yields(v) : v \in Values} \cup {Raises}
      [] n = "FDH" -> {Yields(0)}
      [] OTHER     -> {Yields(v) : v \in Values} \cup {Unavailable, Raises}

\* readSensors of driver or plugin n in state st: the mapping {category: reading} it
\* returns, -1, or an exception.  The reading is built field by field, "sensor" first or
\* last; it is returned only when complete.
ReadSensors(n, st) ==
    IF st.kind = "data"
    THEN [kind |-> "data", key |-> Category(n),
          reading |-> [sensor |-> ModuleVersion(n), val |-> st.val]]
    ELSE [kind |-> st.kind, key |-> Category(n), reading |-> [sensor |-> ModuleVersion(n)]]

\* dict.update with a one-entry mapping
DictUpdate(d, k, v) == [x \in DOMAIN d \cup {k} |-> IF x = k THEN v ELSE d[x]]

\* "if data != -1: self.sensorData.update(data)"
MergeDropUnavailable(d, r) ==
    IF r.kind = "data"
    THEN DictUpdate(d, r.key, r.reading)
    ELSE [x \in DOMAIN d \ {r.key} |-> d[x]]
MergeAccumulate(d, r) ==
    IF r.kind # "data"
    THEN d
    ELSE IF r.key \in DOMAIN d
    THEN DictUpdate(d, r.key, [r.reading EXCEPT !.val = (d[r.key].val + @) % 4])
    ELSE DictUpdate(d, r.key, r.reading)
Merge(d, r) == IF r.kind = "data" THEN DictUpdate(d, r.key, r.reading) ELSE d

\* first loop of readAllModules, at entry i of sensorModules: the try statement encloses
\* the whole loop, so a readSensors that raises ends the loop
RECURSIVE ReadDriversFrom(_, _, _, _, _)
ReadDriversFrom(i, store, st, d, log) ==
    IF i > Len(store)
    THEN [data |-> d, log |-> log]
    ELSE LET n == store[i].name
             r == ReadSensors(n, st[n])
         IN  IF r.kind = "raise"
             THEN [data |-> d, log |-> Append(log, n)]
             ELSE ReadDriversFrom(i + 1, store, st, Merge(d, r), Append(log, n))

\* the plugin the second loop goes to after plugin i of n, whose readSensors ended with
\* `kind`: the next one, as the inner try statement catches what the plugin raises
NextPluginAbortOnRaise(i, kind, n) == IF kind = "raise" THEN n + 1 ELSE i + 1
NextPlugin(i, kind, n) == i + 1

\* second loop of readAllModules, at entry i of plugins
RECURSIVE ReadPluginsFrom(_, _, _, _, _)
ReadPluginsFrom(i, plugs, st, d, log) ==
    IF i > Len(plugs)
    THEN [data |-> d, log |-> log]
    ELSE LET n == plugs[i]
             r == ReadSensors(n, st[n])
         IN  ReadPluginsFrom(NextPlugin(i, r.kind, Len(plugs)), plugs, st,
                             IF r.kind = "raise" THEN d ELSE Merge(d, r),
                             Append(log, n))

\* readAllModules: the snapshot it leaves (and returns) and the readSensors calls made
ReadAllResult(store, plugs, st, d) ==
    LET a == ReadDriversFrom(1, store, st, d, <<>>)
    IN  ReadPluginsFrom(1, plugs, st, a.data, a.log)

\* ModMAIN.readAllModules()
ReadAllModules ==
    /\ LET r == ReadAllResult(sensorModules, plugins, sensorState, sensorData)
       IN  /\ sensorData' = r.data
           /\ readLog' = r.log
    /\ readsInRow' = IF readsInRow < 2 THEN readsInRow + 1 ELSE 2
    /\ raised' = FALSE
    /\ UNCHANGED << sensorState, probeVars, createVars, loadVars, no2Vars >>

\* the drivers held and the plugins loaded
Sources == Range(StoreNames(sensorModules)) \cup Range(plugins)

\* Environment: one sensor or plugin changes what its readSensors will do
SensorChange ==
    /\ \E n \in Sources : \E s \in SourceStates(n) \ {sensorState[n]} :
          sensorState' = [sensorState EXCEPT ![n] = s]
    /\ readsInRow' = 0
    /\ readLog' = <<>>
    /\ raised' = FALSE
    /\ UNCHANGED << sensorData, probeVars, createVars, loadVars, no2Vars >>

-----------------------------------------------------------------------------
(* Initial state: ModMAIN.__init__ *)

EmptyDict == [x \in {} |-> 0]

\* no ModNO2 instance is followed: the variables of the NO2 driver at rest
ThreadIdle ==
    /\ no2AverageList = <<>>
    /\ no2Value = 0
    /\ threadAt = "idle"
    /\ vref = -1
    /\ vgasList = <<>>
    /\ vgas = -1
    /\ conc = <<>>
    /\ gasLevels = {}
    /\ refLevel = 0
    /\ samplesTaken = 0
    /\ lastReading = -1
    /\ lastOp = "none"
    /\ lastBus = "none"
    /\ diedIn = ""
    /\ readResult = 0
    /\ pushed = <<>>
    /\ publishedSeq = <<>>
    /\ sensorsResult = [kind |-> "none"]
    /\ busTxn = [adc |-> 0, fg |-> 0, step |-> 0]

\* createModules constructs ModNO2 with its default window of 15 values
NO2Idle == movingAverageWindow = 15 /\ ThreadIdle

\* the orchestrator as ModMAIN.__init__ leaves it, before any of its operations ran
MainFresh ==
    /\ bus = {}
    /\ moduleNames = <<>>
    /\ probeLog = <<>>
    /\ prevModuleNames = <<>>
    /\ probeRuns = 0
    /\ sensorModules = <<>>
    /\ constructed = [n \in Names |-> 0]
    /\ adcThreads = 0
    /\ ctorRaised = {}
    /\ createCalls = 0
    /\ pluginFiles = <<>>
    /\ pluginsModuleList = <<>>
    /\ plugins = <<>>
    /\ reported = <<>>
    /\ loadCalls = 0
    /\ sensorState = EmptyDict
    /\ sensorData = EmptyDict
    /\ readLog = <<>>
    /\ readsInRow = 0
    /\ raised = FALSE

Init ==
    /\ NO2Idle
    /\ bus = {}
    /\ moduleNames = <<>>
    /\ probeLog = <<>>
    /\ prevModuleNames = <<>>
    /\ probeRuns = 0
    /\ sensorModules = <<>>
    /\ constructed = [n \in Names |-> 0]
    /\ adcThreads = 0
    /\ ctorRaised = {}
    /\ createCalls = 0
    /\ pluginFiles = <<>>
    /\ pluginsModuleList = <<>>
    /\ plugins = <<>>
    /\ reported = <<>>
    /\ loadCalls = 0
    /\ sensorState = EmptyDict
    /\ sensorData = EmptyDict
    /\ readLog = <<>>
    /\ readsInRow = 0
    /\ raised = FALSE

\* SpecLoad starts from a fresh orchestrator and any content of the plugin directory
InitLoad ==
    /\ NO2Idle
    /\ pluginFiles \in Directories
    /\ bus = {}
    /\ moduleNames = <<>>
    /\ probeLog = <<>>
    /\ prevModuleNames = <<>>
    /\ probeRuns = 0
    /\ sensorModules = <<>>
    /\ constructed = [n \in Names |-> 0]
    /\ adcThreads = 0
    /\ ctorRaised = {}
    /\ createCalls = 0
    /\ pluginsModuleList = <<>>
    /\ plugins = <<>>
    /\ reported = <<>>
    /\ loadCalls = 0
    /\ sensorState = EmptyDict
    /\ sensorData = EmptyDict
    /\ readLog = <<>>
    /\ readsInRow = 0
    /\ raised = FALSE

\* the plugin directories SpecRead starts from: k files, each defining one class
OneClassFiles(k) == [i \in 1..k |-> PluginFile(TRUE, TRUE, << TRUE >>)]

\* SpecRead starts from an orchestrator on which createModules and loadPlugins have run
\* once each, every constructor having succeeded, with an empty snapshot
InitRead ==
    \E fitted \in BusStates : \E k \in 0..MaxPlugins :
       LET p == ProbeResult(<<>>, fitted)
           c == CreateFrom(1, p.names, {}, <<>>, [n \in Names |-> 0], 0)
           l == LoadResult(OneClassFiles(k), <<>>, <<>>)
           held == Range(StoreNames(c.store)) \cup Range(l.plugins)
       IN  /\ Len(c.store) + Len(l.plugins) <= MaxSources
           /\ bus = fitted
           /\ moduleNames = p.names
           /\ probeLog = p.log
           /\ prevModuleNames = <<>>
           /\ probeRuns = 1
           /\ sensorModules = c.store
           /\ constructed = c.cnt
           /\ adcThreads = c.threads
           /\ ctorRaised = {}
           /\ createCalls = 1
           /\ pluginFiles = OneClassFiles(k)
           /\ pluginsModuleList = l.mods
           /\ plugins = l.plugins
           /\ reported = l.reported
           /\ loadCalls = 1
           /\ sensorState = [n \in held |-> InitialState(n)]
           /\ sensorData = EmptyDict
           /\ readLog = <<>>
           /\ readsInRow = 0
           /\ raised = FALSE
           /\ NO2Idle

NextProbe == ProbeModules

NextLoad == LoadPlugins

NextRead == ReadAllModules \/ SensorChange

SpecLoad == InitLoad /\ [][NextLoad]_vars

SpecRead == InitRead /\ [][NextRead]_vars

SpecProbe == Init /\ [][NextProbe]_vars

Next == CreateModules

Spec == Init /\ [][Next]_vars

-----------------------------------------------------------------------------
(* NO2 driver: the smoothing window, ModNO2._calculateMovingAverage *)

\* Concentrations are held in hundredths of a ppm (the driver rounds them to two
\* decimal places), so that 10.0 is 1000 and 16.67 is 1667.

RECURSIVE SumSeq(_)
\* sum(data_list)
SumSeq(l) == IF l = <<>> THEN 0 ELSE Head(l) + SumSeq(Tail(l))

RoundDivFloor(num, den) ==
    LET n == IF den < 0 THEN 0 - num ELSE num
        d == IF den < 0 THEN 0 - den ELSE den
    IN  n \div d
\* round(num / den, 2) on a quotient of hundredths: the integer nearest to the exact
\* quotient, a tie going to the even one
RoundDiv(num, den) ==
    LET n == IF den < 0 THEN 0 - num ELSE num
        d == IF den < 0 THEN 0 - den ELSE den
        q == n \div d
        r == n % d
    IN  IF 2 * r < d THEN q
        ELSE IF 2 * r > d THEN q + 1
        ELSE IF q % 2 = 0 THEN q ELSE q + 1

InsertBack(l, x) == Append(l, x)
\* data_list.insert(0, new_data_point)
InsertFront(l, x) == << x >> \o l

PopAtOffByOne(l, k) ==
    IF 1 <= k /\ k < Len(l) THEN SubSeq(l, 1, k - 1) \o SubSeq(l, k + 1, Len(l)) ELSE l
\* data_list.pop(k) inside try/except: removes the item at 0-based index k when there
\* is one, and otherwise raises IndexError, which is swallowed
PopAt(l, k) ==
    IF k < Len(l) THEN SubSeq(l, 1, k) \o SubSeq(l, k + 2, Len(l)) ELSE l

\* _calculateMovingAverage(new_data_point, data_list, average_size): the list as the
\* call leaves it and the value it returns, round(sum / len, 2)
MovingAverage(new_data_point, data_list, average_size) ==
    LET l == PopAt(InsertFront(data_list, new_data_point), average_size)
    IN  [list |-> l, value |-> RoundDiv(SumSeq(l), Len(l))]

\* the data points pushed in SpecAverage: 10.00, 20.00, ...
DataPoints == {1000 * k : k \in 1..MaxPoint}

\* self.no2Value = self._calculateMovingAverage(conc, self.no2AverageList,
\* self.movingAverageWindow), for any data point
Push ==
    /\ threadAt = "idle"
    /\ Len(pushed) < MaxPushes
    /\ \E x \in DataPoints :
          LET r == MovingAverage(x, no2AverageList, movingAverageWindow)
          IN  /\ no2AverageList' = r.list
              /\ no2Value' = r.value
              /\ pushed' = Append(pushed, x)
              /\ publishedSeq' = Append(publishedSeq, r.value)
    /\ lastOp' = "push"
    /\ UNCHANGED << movingAverageWindow, threadVars, adcVars, lastBus, readResult, mainVars, restVars >>

\* SpecAverage starts from an empty window of any capacity from 1 to MaxWindow
InitAverage ==
    /\ MainFresh
    /\ ThreadIdle
    /\ movingAverageWindow \in 1..MaxWindow

NextAverage == Push

SpecAverage == InitAverage /\ [][NextAverage]_vars

-----------------------------------------------------------------------------
(* NO2 driver: the acquisition thread, ModNO2._adcPollingThread, and readNO2 *)

\* Voltages are held in mV (the driver rounds them to three decimal places of a volt).
RawValues == 0..MaxRaw

\* for i in range(1, 10): the number of gas readings of one cycle
SamplesPerCycle == 9

\* number of items of l equal to v
Occurrences(l, v) == Cardinality({i \in DOMAIN l : l[i] = v})

\* the most common values of l
Modes(l) ==
    LET count == [v \in Range(l) |-> Occurrences(l, v)]
    IN  {v \in DOMAIN count : \A u \in DOMAIN count : count[u] <= count[v]}

\* the value of S that comes first in l
FirstOf(l, S) == Head(SelectSeq(l, LAMBDA x : x \in S))

\* statistics.mode(l) on a non-empty list.  With one most common value it returns that
\* value.  With several, the outcome depends on the interpreter the package is installed
\* on (setup.py names Python 3 and 3.7 and sets no python_requires): up to Python 3.7
\* it raises StatisticsError, from Python 3.8 on it returns the first of them in l.
ModeOutcomesFirst(l) == {[raises |-> FALSE, value |-> Head(l)]}
ModeOutcomes(l) ==
    LET modes == Modes(l)
        first == FirstOf(l, modes)
    IN  IF Cardinality(modes) = 1
        THEN {[raises |-> FALSE, value |-> first]}
        ELSE {[raises |-> TRUE, value |-> 0 - 1], [raises |-> FALSE, value |-> first]}

\* try: vgas = mode(vgasList) / except: vgasList.clear() -- when mode raises, vgas keeps
\* the last reading
SelectVgas(last, m) == IF m.raises THEN last ELSE m.value

\* conc = round((vgas - (vref + voffset)) / (tia_gain * 1e3) / (sensitivity * 1e-9), 2)
\* with the defaults sensitivity = -20.86, tia_gain = 499, voffset = 0; voltages in mV,
\* the result in hundredths
Conc(v, ref) == RoundDiv((v - (ref + 0)) * 10000000, 499 * (0 - 2086))

KeepAfterCycle(l) == l
\* vgasList.clear() at the end of every pass of the loop
ClearAfterCycle(l) == << >>

WindowAfterReadReset(window) == << >>
\* readNO2 leaves the window alone
WindowAfterRead(window) == window

\* vref = self._readVrefChannel() returns a voltage: the first loop ends
VrefReady ==
    /\ threadAt = "vref"
    /\ vref' = refLevel
    /\ threadAt' = "sampling"
    /\ lastOp' = "vref"
    /\ lastBus' = "vref"
    /\ UNCHANGED << windowVars, vgasList, vgas, conc, samplesTaken, lastReading, diedIn,
                    adcVars, readResult, pushed, publishedSeq, mainVars, restVars >>

\* vref = self._readVrefChannel() returns -1 (conversion not ready): the loop retries
VrefNotReady ==
    /\ threadAt = "vref"
    /\ vref' = 0 - 1
    /\ lastOp' = "vrefNotReady"
    /\ lastBus' = "vref"
    /\ UNCHANGED << windowVars, threadAt, vgasList, vgas, conc, samplesTaken, lastReading,
                    diedIn, adcVars, readResult, pushed, publishedSeq, mainVars, restVars >>

\* self._readVrefChannel() raises (bus error): the first loop is not inside any try
\* statement, the exception ends the thread
VrefError ==
    /\ threadAt = "vref"
    /\ threadAt' = "dead"
    /\ diedIn' = "vref"
    /\ lastOp' = "died"
    /\ lastBus' = "vref"
    /\ UNCHANGED << windowVars, vref, vgasList, vgas, conc, samplesTaken, lastReading,
                    adcVars, readResult, pushed, publishedSeq, mainVars, restVars >>

\* vgas = self._readVgasChannel() returns a voltage: it is appended to vgasList; the
\* ninth reading of the cycle ends the for loop, and the rest of the pass follows: mode,
\* concentration, push into the window, publication, vgasList.clear()
VgasReading ==
    /\ threadAt = "sampling"
    /\ \E v \in gasLevels :
          LET batch == Append(vgasList, v)
          IN  /\ lastReading' = v
              /\ IF samplesTaken + 1 < SamplesPerCycle
                 THEN /\ vgasList' = batch
                      /\ samplesTaken' = samplesTaken + 1
                      /\ lastOp' = "sample"
                      /\ UNCHANGED << windowVars, vgas, conc >>
                 ELSE \E m \in ModeOutcomes(batch) :
                         LET sel == SelectVgas(v, m)
                             c   == IF sel # 0 - 1 /\ vref # 0 - 1 THEN << Conc(sel, vref) >> ELSE conc
                             r   == MovingAverage(c[1], no2AverageList, movingAverageWindow)
                         IN  /\ c # << >>
                             /\ vgas' = sel
                             /\ conc' = c
                             /\ no2AverageList' = r.list
                             /\ no2Value' = r.value
                             /\ vgasList' = ClearAfterCycle(IF m.raises THEN << >> ELSE batch)
                             /\ samplesTaken' = 0
                             /\ lastOp' = "cycle"
                             /\ UNCHANGED movingAverageWindow
    /\ lastBus' = "vgas"
    /\ UNCHANGED << threadAt, vref, diedIn, adcVars, readResult, pushed, publishedSeq, mainVars, restVars >>

\* vgas = self._readVgasChannel() returns -1 (conversion not ready): the inner while
\* loop sleeps and retries
VgasNotReady ==
    /\ threadAt = "sampling"
    /\ lastOp' = "sample"
    /\ lastBus' = "vgas"
    /\ UNCHANGED << windowVars, threadAt, vref, vgasList, vgas, conc, samplesTaken, lastReading,
                    diedIn, adcVars, readResult, pushed, publishedSeq, mainVars, restVars >>

\* self._readVgasChannel() raises (bus error): "except: pass" ends the pass of the loop,
\* then line 248 runs.  While conc was never assigned that statement raises
\* UnboundLocalError outside the try block and the thread ends; otherwise it pushes the
\* conc of the previous cycle and publishes, and vgasList is cleared.
VgasError ==
    /\ threadAt = "sampling"
    /\ lastBus' = "vgas"
    /\ IF conc = << >>
       THEN /\ threadAt' = "dead"
            /\ diedIn' = "cycle"
            /\ lastOp' = "died"
            /\ UNCHANGED << windowVars, vgasList, samplesTaken >>
       ELSE LET r == MovingAverage(conc[1], no2AverageList, movingAverageWindow)
            IN  /\ no2AverageList' = r.list
                /\ no2Value' = r.value
                /\ vgasList' = ClearAfterCycle(vgasList)
                /\ samplesTaken' = 0
                /\ lastOp' = "failed"
                /\ UNCHANGED << movingAverageWindow, threadAt, diedIn >>
    /\ UNCHANGED << vref, vgas, conc, lastReading, adcVars, readResult, pushed, publishedSeq,
                    mainVars, restVars >>

ReadNO2Recompute(published, window) ==
    IF window = << >> THEN published ELSE RoundDiv(SumSeq(window), Len(window))
\* return self.no2Value
ReadNO2Value(published, window) == published

\* ModNO2.readNO2(), called from any other thread at any time
ReadNO2 ==
    /\ threadAt # "idle"
    /\ readResult' = ReadNO2Value(no2Value, no2AverageList)
    /\ no2AverageList' = WindowAfterRead(no2AverageList)
    /\ lastOp' = "readNO2"
    /\ UNCHANGED << movingAverageWindow, no2Value, threadVars, adcVars, lastBus,
                    pushed, publishedSeq, mainVars, restVars >>

\* the driver as ModNO2.__init__ leaves it: the reset command was written to the ADC
\* and the thread was started
Started ==
    /\ no2AverageList = <<>>
    /\ no2Value = 0
    /\ threadAt = "vref"
    /\ vref = 0 - 1
    /\ vgasList = <<>>
    /\ vgas = 0 - 1
    /\ conc = <<>>
    /\ samplesTaken = 0
    /\ lastReading = 0 - 1
    /\ lastOp = "init"
    /\ lastBus = "reset"
    /\ diedIn = ""
    /\ readResult = 0
    /\ pushed = <<>>
    /\ publishedSeq = <<>>
    /\ sensorsResult = [kind |-> "none"]
    /\ busTxn = [adc |-> 0, fg |-> 0, step |-> 0]

\* SpecNO2 starts from a driver just constructed, with any window capacity, a gas
\* channel that shows one constant voltage and any reference voltage
InitNO2 ==
    /\ MainFresh
    /\ Started
    /\ movingAverageWindow \in 1..MaxWindow
    /\ \E v \in RawValues : gasLevels = {v}
    /\ refLevel \in RawValues

\* SpecBatch starts from a driver just constructed with a window of one value, a gas
\* channel that can show any voltage at each reading and a reference voltage of 0
InitBatch ==
    /\ MainFresh
    /\ Started
    /\ movingAverageWindow = 1
    /\ gasLevels = RawValues
    /\ refLevel = 0

NextBatch ==
    \/ VrefReady
    \/ VrefNotReady
    \/ VrefError
    \/ VgasReading
    \/ VgasNotReady
    \/ VgasError

NextNO2 == NextBatch \/ ReadNO2

SpecNO2 == InitNO2 /\ [][NextNO2]_vars

SpecBatch == InitBatch /\ [][NextBatch]_vars

-----------------------------------------------------------------------------
(* NO2 driver: the publication statement of the thread, statement by statement *)

\* Line 248, self.no2Value = self._calculateMovingAverage(conc, self.no2AverageList,
\* self.movingAverageWindow), is not atomic: the thread can be preempted between the
\* insert, the pop and the store of the result, and a reader can run in between.  The
\* cycle that produces conc is taken as a whole here: conc is any data point.

\* data_list.insert(0, new_data_point), on the shared list
PushInsert ==
    /\ threadAt = "sampling"
    /\ Len(pushed) < MaxPushes
    /\ \E x \in DataPoints :
          /\ conc' = << x >>
          /\ no2AverageList' = InsertFront(no2AverageList, x)
          /\ pushed' = Append(pushed, x)
    /\ threadAt' = "inserted"
    /\ lastOp' = "insert"
    /\ UNCHANGED << movingAverageWindow, no2Value, vref, vgasList, vgas, samplesTaken,
                    lastReading, diedIn, adcVars, lastBus, readResult, publishedSeq,
                    mainVars, restVars >>

\* data_list.pop(average_size), on the shared list
PushPop ==
    /\ threadAt = "inserted"
    /\ no2AverageList' = PopAt(no2AverageList, movingAverageWindow)
    /\ threadAt' = "popped"
    /\ lastOp' = "pop"
    /\ UNCHANGED << movingAverageWindow, no2Value, vref, vgasList, vgas, conc, samplesTaken,
                    lastReading, diedIn, adcVars, lastBus, readResult, pushed, publishedSeq,
                    mainVars, restVars >>

\* value = round(sum(data_list) / len(data_list), 2); self.no2Value = value: one store
\* of an object reference
PushAssign ==
    /\ threadAt = "popped"
    /\ no2Value' = RoundDiv(SumSeq(no2AverageList), Len(no2AverageList))
    /\ publishedSeq' = Append(publishedSeq, no2Value')
    /\ threadAt' = "sampling"
    /\ lastOp' = "assign"
    /\ UNCHANGED << movingAverageWindow, no2AverageList, vref, vgasList, vgas, conc,
                    samplesTaken, lastReading, diedIn, adcVars, lastBus, readResult, pushed,
                    mainVars, restVars >>

\* SpecPublish starts from a driver just constructed, with any window capacity
InitPublish ==
    /\ MainFresh
    /\ Started
    /\ movingAverageWindow \in 1..MaxWindow
    /\ gasLevels = RawValues
    /\ refLevel = 0

NextPublish ==
    \/ VrefReady
    \/ PushInsert
    \/ PushPop
    \/ PushAssign
    \/ ReadNO2

SpecPublish == InitPublish /\ [][NextPublish]_vars

-----------------------------------------------------------------------------
(* NO2 driver: ModNO2.readSensors *)

NO2SensorStateFalsy(published) ==
    IF published # 0 /\ published # 0 - 100 THEN Yields(published) ELSE Unavailable
\* no2 = self.readNO2(); if no2 != -1: the reading ... else: return -1.  The published
\* value is in hundredths, -1 is -100.
NO2SensorState(published) ==
    IF published # 0 - 100 THEN Yields(published) ELSE Unavailable

\* ModNO2.readSensors(), called from any thread at any time
ReadSensorsNO2 ==
    /\ sensorsResult' =
          ReadSensors("NO2", NO2SensorState(ReadNO2Value(no2Value, no2AverageList)))
    /\ lastOp' = "readSensors"
    /\ UNCHANGED << windowVars, threadVars, adcVars, lastBus, readResult, pushed,
                    publishedSeq, busTxn, mainVars >>

\* the concentrations of the first push in SpecSensors: -1.00, 0.00, 1.00, ...
ConcPoints == {100 * k : k \in (0 - MaxPpm)..MaxPpm}

\* SpecSensors starts from a driver of any window capacity that has published nothing
\* yet, or has pushed and published one concentration; its thread is not followed, the
\* later pushes are those of SpecAverage
InitSensors ==
    /\ MainFresh
    /\ movingAverageWindow \in 1..MaxWindow
    /\ threadAt = "idle"
    /\ vref = 0 - 1
    /\ vgasList = <<>>
    /\ vgas = 0 - 1
    /\ conc = <<>>
    /\ gasLevels = {}
    /\ refLevel = 0
    /\ samplesTaken = 0
    /\ lastReading = 0 - 1
    /\ lastOp = "none"
    /\ lastBus = "none"
    /\ diedIn = ""
    /\ readResult = 0
    /\ sensorsResult = [kind |-> "none"]
    /\ busTxn = [adc |-> 0, fg |-> 0, step |-> 0]
    /\ \/ /\ no2AverageList = <<>>
          /\ no2Value = 0
          /\ pushed = <<>>
          /\ publishedSeq = <<>>
       \/ \E x \in ConcPoints :
             LET r == MovingAverage(x, <<>>, movingAverageWindow)
             IN  /\ no2AverageList = r.list
                 /\ no2Value = r.value
                 /\ pushed = << x >>
                 /\ publishedSeq = << r.value >>

NextSensors == Push \/ ReadSensorsNO2

SpecSensors == InitSensors /\ [][NextSensors]_vars

-----------------------------------------------------------------------------
(* Bus traffic of the drivers: the acquisition thread against readAllModules *)

\* the number of bus operations one readSensors() of a driver issues when the sensor
\* has data: THV write, read (VOC) and write, read (temperature and humidity); CO2 two
\* combined transfers; PM2 write, read (data ready) and write, read (values); NRD three
\* combined transfers; FDH and NO2 none
BusOps(n) ==
    CASE n = "THV" -> 4
      [] n = "CO2" -> 2
      [] n = "PM2" -> 4
      [] n = "NRD" -> 3
      [] OTHER     -> 0

\* the numbers of operations after which readSensors() returns: CO2 and PM2 return
\* after the data-ready query when the sensor has no data
ReturnPoints(n) ==
    CASE n = "CO2" -> {1, 2}
      [] n = "PM2" -> {2, 4}
      [] OTHER     -> {BusOps(n)}

\* whether a driver that has issued k operations of its readSensors() is between the
\* write and the separate read of one transaction
TxnOpen(n, k) == n \in {"THV", "PM2"} /\ k \in {1, 3}

\* the acquisition thread issues the next bus operation of a channel read: configure
\* (0 -> 1), trigger (1 -> 2), data-ready query (2 -> 3, or 2 -> 0 when the ADC is not
\* ready), read (3 -> 0)
AdcBusOp ==
    /\ \E nxt \in 0..3 :
          /\ \/ nxt = (busTxn.adc + 1) % 4
             \/ busTxn.adc = 2 /\ nxt = 0
          /\ busTxn' = [busTxn EXCEPT !.adc = nxt]
    /\ lastBus' = "NO2"
    /\ lastOp' = "adcBus"
    /\ UNCHANGED << windowVars, threadVars, adcVars, readResult, pushed, publishedSeq,
                    sensorsResult, mainVars >>

\* readAllModules enters its loop over self.sensorModules.items()
FgStart ==
    /\ busTxn.fg = 0
    /\ sensorModules # << >>
    /\ busTxn' = [busTxn EXCEPT !.fg = 1, !.step = 0]
    /\ lastOp' = "fgStart"
    /\ UNCHANGED << windowVars, threadVars, adcVars, lastBus, readResult, pushed,
                    publishedSeq, sensorsResult, mainVars >>

\* the driver readAllModules is reading issues its next bus operation
FgBusOp ==
    /\ busTxn.fg > 0
    /\ busTxn.step < BusOps(sensorModules[busTxn.fg].name)
    /\ busTxn' = [busTxn EXCEPT !.step = busTxn.step + 1]
    /\ lastBus' = sensorModules[busTxn.fg].name
    /\ lastOp' = "fgBus"
    /\ UNCHANGED << windowVars, threadVars, adcVars, readResult, pushed, publishedSeq,
                    sensorsResult, mainVars >>

\* module.readSensors() returns and the loop moves to the next driver, or ends
FgReturn ==
    /\ busTxn.fg > 0
    /\ busTxn.step \in ReturnPoints(sensorModules[busTxn.fg].name)
    /\ busTxn' = [busTxn EXCEPT !.fg = IF busTxn.fg < Len(sensorModules)
                                         THEN busTxn.fg + 1 ELSE 0,
                                 !.step = 0]
    /\ lastOp' = "fgReturn"
    /\ UNCHANGED << windowVars, threadVars, adcVars, lastBus, readResult, pushed,
                    publishedSeq, sensorsResult, mainVars >>

\* SpecBus starts after createModules on a bus with the NO2 board fitted: every
\* discovered driver was constructed and the acquisition thread runs
InitBus ==
    /\ \E fitted \in BusStates :
          LET p == ProbeResult(<<>>, fitted)
              c == CreateFrom(1, p.names, {}, <<>>, [n \in Names |-> 0], 0)
          IN  /\ AddrOf("NO2") \in fitted
              /\ bus = fitted
              /\ moduleNames = p.names
              /\ probeLog = p.log
              /\ prevModuleNames = <<>>
              /\ probeRuns = 1
              /\ sensorModules = c.store
              /\ constructed = c.cnt
              /\ adcThreads = c.threads
              /\ ctorRaised = {}
              /\ createCalls = 1
              /\ sensorState = [n \in Range(StoreNames(c.store)) |-> InitialState(n)]
    /\ pluginFiles = <<>>
    /\ pluginsModuleList = <<>>
    /\ plugins = <<>>
    /\ reported = <<>>
    /\ loadCalls = 0
    /\ sensorData = EmptyDict
    /\ readLog = <<>>
    /\ readsInRow = 0
    /\ raised = FALSE
    /\ Started
    /\ movingAverageWindow = 15
    /\ gasLevels = RawValues
    /\ refLevel = 0

NextBus == AdcBusOp \/ FgStart \/ FgBusOp \/ FgReturn

SpecBus == InitBus /\ [][NextBus]_vars

-----------------------------------------------------------------------------
(* Claims about probing, checked under SpecProbe *)

\* C3: one probe attempts each known address at most once and only known addresses,
\* and leaves moduleNames equal to exactly the registry names whose probe write was
\* acknowledged (the devices answering on the bus), in registry-declaration order.
C3_ProbeExact ==
    probeRuns > 0 =>
       /\ \A i \in DOMAIN probeLog : probeLog[i].addr \in Addresses
       /\ \A a \in Addresses :
             Cardinality({i \in DOMAIN probeLog : probeLog[i].addr = a}) <= 1
       /\ Range(moduleNames) \subseteq Names
       /\ moduleNames = Restrict(RegistryNames,
             {n \in Names : \E i \in DOMAIN probeLog :
                               probeLog[i].addr = AddrOf(n) /\ probeLog[i].acked})
       /\ moduleNames = Restrict(RegistryNames, {n \in Names : AddrOf(n) \in bus})

\* a probe in which two of the six known addresses answered, the NO2 ADC among them
C3_Witness ==
    /\ probeRuns > 0
    /\ Cardinality(bus) = 2
    /\ moduleNames = << "CO2", "NO2" >>
    /\ Cardinality({i \in DOMAIN probeLog : ~probeLog[i].acked}) = 4

\* C4: every probe run replaces moduleNames: after it the sequence holds only names
\* found by this run, none twice; a run against the same bus as the run before gives
\* the same sequence; and no bus error is raised out of the probe.
C4_ProbeRerun ==
    [][ probeRuns' = probeRuns + 1 =>
          /\ ~raised'
          /\ NoDuplicates(moduleNames')
          /\ \A n \in Range(moduleNames') : AddrOf(n) \in bus'
          /\ (probeRuns > 0 /\ bus' = bus => moduleNames' = moduleNames) ]_vars

\* a second (or later) run that lost a module of the run before and found another again
C4_Witness ==
    /\ probeRuns >= 2
    /\ \E n \in Range(prevModuleNames) : n \notin Range(moduleNames)
    /\ \E n \in Range(prevModuleNames) : n \in Range(moduleNames)

-----------------------------------------------------------------------------
(* Claims about construction, checked under Spec *)

\* C2: createModules does not raise; every discovered module whose constructor did not
\* raise is constructed and stored; and the stored drivers of this call are in
\* discovery order.
C2_ConstructionIsolated ==
    createCalls > 0 =>
       LET ok == Range(moduleNames) \ ctorRaised
       IN  /\ ~raised
           /\ \A n \in ok : \E i \in DOMAIN sensorModules :
                 sensorModules[i] = [name |-> n, inst |-> constructed[n]]
           /\ Restrict(StoreNames(sensorModules), ok) = Restrict(moduleNames, ok)

\* C5: over any sequence of createModules calls at most one driver instance is
\* constructed per address, and at most one NO2 acquisition thread is started.
C5_OneInstancePerAddress ==
    /\ \A n \in Names : constructed[n] <= 1
    /\ adcThreads <= 1

-----------------------------------------------------------------------------
(* Claims about readAllModules, checked under SpecRead *)

\* the reading driver or plugin n yields in the current sensor state
ReadingOf(n) == [sensor |-> ModuleVersion(n), val |-> sensorState[n].val]

HeldNames == Range(StoreNames(sensorModules))

\* entry k of the snapshot is the same before and after the step
EntryUnchanged(k) ==
    /\ k \in DOMAIN sensorData' <=> k \in DOMAIN sensorData
    /\ k \in DOMAIN sensorData => sensorData'[k] = sensorData[k]

\* C1: when the readSensors of a built-in driver raises, readAllModules does not raise,
\* and every other held driver is still read in that call, a sibling's successful
\* reading being merged into the snapshot.
C1_SiblingsStillRead ==
    (readsInRow > 0 /\ \E n \in HeldNames : sensorState[n].kind = "raise") =>
       /\ ~raised
       /\ \A n \in HeldNames :
             /\ n \in Range(readLog)
             /\ sensorState[n].kind = "data" =>
                   /\ Category(n) \in DOMAIN sensorData
                   /\ sensorData[Category(n)] = ReadingOf(n)

\* C6: no step removes a key from the snapshot, every entry is a complete reading, and
\* a readAllModules call leaves the entry of a held driver that returns -1 or raises
\* as it was: absent if absent, else the same reading; an entry that does change is
\* the reading its driver yielded in this call.
C6_LastKnownGood ==
    [][ /\ DOMAIN sensorData \subseteq DOMAIN sensorData'
        /\ \A k \in DOMAIN sensorData' : DOMAIN sensorData'[k] = {"sensor", "val"}
        /\ readsInRow' > 0 =>
              \A n \in HeldNames :
                 IF sensorState[n].kind \in {"unavailable", "raise"}
                 THEN EntryUnchanged(Category(n))
                 ELSE \/ EntryUnchanged(Category(n))
                      \/ sensorData'[Category(n)] = ReadingOf(n) ]_vars

\* after a read, one faulted driver still shows its last good reading and another,
\* which never succeeded, has no entry
C6_Witness ==
    /\ readsInRow > 0
    /\ \E n \in HeldNames :
          /\ sensorState[n].kind \in {"unavailable", "raise"}
          /\ Category(n) \in DOMAIN sensorData
    /\ \E n \in HeldNames :
          /\ sensorState[n].kind \in {"unavailable", "raise"}
          /\ Category(n) \notin DOMAIN sensorData

C8_PluginsIsolated ==
    [][ readsInRow' > 0 =>
          LET np == Len(plugins)
              nl == Len(readLog')
          IN  /\ ~raised'
              /\ nl >= np
              /\ SubSeq(readLog', nl - np + 1, nl) = plugins
              /\ \A i \in 1..(nl - np) : readLog'[i] \in Names
              /\ \A n \in Range(plugins) :
                    IF sensorState[n].kind = "data"
                    THEN /\ Category(n) \in DOMAIN sensorData'
                         /\ sensorData'[Category(n)] = ReadingOf(n)
                    ELSE EntryUnchanged(Category(n)) ]_vars

\* a read in which a built-in driver raised, the first plugin raised, and the second
\* plugin's reading was merged
C8_Witness ==
    /\ readsInRow > 0
    /\ \E n \in HeldNames : sensorState[n].kind = "raise"
    /\ Len(plugins) >= 2
    /\ sensorState[plugins[1]].kind = "raise"
    /\ sensorState[plugins[2]].kind = "data"
    /\ Category(plugins[2]) \in DOMAIN sensorData
    /\ Category(plugins[1]) \notin DOMAIN sensorData

-----------------------------------------------------------------------------
(* Claims about loadPlugins, checked under SpecLoad *)

\* the positions of the ".py" files of the directory that load
Loadable == {i \in DOMAIN pluginFiles : pluginFiles[i].py /\ pluginFiles[i].loads}

\* C9: whenever loadPlugins reports a count, it is the number of instances in the
\* registry; after a first call that returned normally the registry holds exactly one
\* instance of every class of every file that loaded, whichever files failed to load;
\* with 3 candidate files, one failing to load and the others defining one class each,
\* that is 2 instances and a reported count of 2.
C9_LoadFailureSkipped ==
    loadCalls >= 1 =>
       /\ reported # <<>> => reported = << Len(plugins) >>
       /\ (loadCalls = 1 /\ ~raised) =>
             /\ NoDuplicates(plugins)
             /\ Range(plugins) =
                   UNION {{ClassName(i, j) : j \in DOMAIN pluginFiles[i].ctors} : i \in Loadable}
             /\ reported = << Len(plugins) >>
       /\ ( /\ loadCalls = 1
            /\ Len(pluginFiles) = 3
            /\ \A i \in DOMAIN pluginFiles : pluginFiles[i].py
            /\ Cardinality(Loadable) = 2
            /\ \A i \in Loadable : pluginFiles[i].ctors = << TRUE >> )
          => (Len(plugins) = 2 /\ reported = << 2 >> /\ ~raised)

\* the scenario: the second of three files fails to load
C9_Witness ==
    /\ loadCalls = 1
    /\ pluginFiles = << PluginFile(TRUE, TRUE, << TRUE >>),
                        PluginFile(TRUE, FALSE, <<>>),
                        PluginFile(TRUE, TRUE, << TRUE >>) >>
    /\ plugins = << "A1", "C1" >>
    /\ reported = << 2 >>

\* C10: loadPlugins never raises, and every class whose constructor succeeds, of every
\* file that loads, is instantiated and appended to the registry.
C10_CtorFailureSkipped ==
    loadCalls >= 1 =>
       /\ ~raised
       /\ \A i \in Loadable : \A j \in DOMAIN pluginFiles[i].ctors :
             pluginFiles[i].ctors[j] => ClassName(i, j) \in Range(plugins)

\* C11: once a loadPlugins call has returned normally, no later step of the orchestrator
\* -- here a further loadPlugins call, the only operation that writes self.plugins --
\* adds, removes, duplicates or replaces a plugin instance: the registry stays as it is.
C11_RegistryImmutable ==
    [][(loadCalls >= 1 /\ ~raised) => plugins' = plugins]_vars

-----------------------------------------------------------------------------
(* Claims about the smoothing window, checked under SpecAverage *)

Min(a, b) == IF a < b THEN a ELSE b

\* C12: for a capacity C >= 1 and any run of pushes, the window never holds more than C
\* values, it holds the min(n, C) most recently pushed values, most recent first, and
\* a push into a window already holding C values evicts exactly one value, the oldest.
C12_WindowBound ==
    [][lastOp' = "push" =>
         LET n == Len(pushed')
             C == movingAverageWindow
         IN  /\ Len(no2AverageList') <= C
             /\ Len(no2AverageList') = Min(n, C)
             /\ \A i \in 1..Len(no2AverageList') : no2AverageList'[i] = pushed'[n + 1 - i]
             /\ Len(no2AverageList) = C =>
                   no2AverageList' = << pushed'[n] >> \o SubSeq(no2AverageList, 1, C - 1)
      ]_vars

\* a push into a full window of capacity 2 or more has evicted the oldest value
C12_Witness ==
    /\ lastOp = "push"
    /\ movingAverageWindow >= 2
    /\ Len(pushed) > movingAverageWindow
    /\ Len(no2AverageList) = movingAverageWindow

\* C13: after every push the published value is the arithmetic mean of exactly the
\* values the window holds after that push, rounded to two decimal places (it is
\* within half a hundredth of the exact mean).
C13_PublishedIsMean ==
    lastOp = "push" =>
       LET n == Len(no2AverageList)
           e == no2Value * n - SumSeq(no2AverageList)
       IN  /\ n >= 1
           /\ 2 * e <= n
           /\ 0 - 2 * e <= n
           /\ publishedSeq[Len(publishedSeq)] = no2Value

\* a push after which the mean of the window is not a whole number of hundredths
C13_Witness ==
    /\ lastOp = "push"
    /\ no2AverageList # <<>>
    /\ SumSeq(no2AverageList) % Len(no2AverageList) # 0

\* the scenario of C14: capacity 3 and the pushes 10, 20, 30, 40, or a prefix of them
ScenarioPushes == << 1000, 2000, 3000, 4000 >>
ScenarioMeans  == << 1000, 1500, 2000, 3000 >>
InScenario ==
    /\ movingAverageWindow = 3
    /\ Len(pushed) <= 4
    /\ pushed = SubSeq(ScenarioPushes, 1, Len(pushed))

\* C14 as stated: with capacity 3 and the pushes 10, 20, 30, 40 the published means are
\* 10.0, 15.0, 20.0, 30.0 and the window holds [30, 20, 10] after the 4th push.
C14_Scenario ==
    InScenario =>
       /\ publishedSeq = SubSeq(ScenarioMeans, 1, Len(pushed))
       /\ Len(pushed) = 4 => no2AverageList = << 3000, 2000, 1000 >>

\* C14 amended: with capacity 3 and the pushes 10, 20, 30, 40 the published means are
\* 10.0, 15.0, 20.0, 30.0 and the window holds [40, 30, 20] after the 4th push.
C14_ScenarioAmended ==
    InScenario =>
       /\ publishedSeq = SubSeq(ScenarioMeans, 1, Len(pushed))
       /\ Len(pushed) = 4 => no2AverageList = << 4000, 3000, 2000 >>

\* the four pushes of the scenario have been made
C14_Witness ==
    /\ movingAverageWindow = 3
    /\ pushed = ScenarioPushes
    /\ no2Value = 3000

-----------------------------------------------------------------------------
(* Claims about the noise-rejection step, checked under SpecBatch *)

\* the list handed to mode() by the step that takes the last reading of a cycle
BatchOfStep == Append(vgasList, lastReading')

C20_NoModeFallback ==
    [][ (lastOp' = "cycle" /\ Cardinality(Modes(BatchOfStep)) > 1) =>
           /\ vgas' = lastReading'
           /\ conc' = << Conc(lastReading', vref) >>
           /\ no2AverageList'[1] = Conc(lastReading', vref)
           /\ threadAt' = "sampling"
      ]_vars

-----------------------------------------------------------------------------
(* Claims about the acquisition thread and readNO2, checked under SpecNO2 *)

\* C16: readNO2 can be called in every state of the background loop, returns the value
\* most recently published, and changes neither the window, nor the published value,
\* nor anything of the loop, and issues no bus transaction.
C16_ReadNO2ReadOnly ==
    /\ [](threadAt # "idle" => ENABLED ReadNO2)
    /\ [][ lastOp' = "readNO2" =>
              /\ readResult' = no2Value
              /\ UNCHANGED << windowVars, threadVars, lastBus >>
         ]_vars

\* readNO2 returned a published value while the loop was in the middle of a cycle
C16_Witness ==
    /\ lastOp = "readNO2"
    /\ threadAt = "sampling"
    /\ samplesTaken > 0
    /\ no2AverageList # << >>
    /\ readResult = no2Value
    /\ readResult # 0

\* C17: no bus error raised during a sampling cycle ends the acquisition loop, the
\* first cycle included.
C17_LoopSurvivesCycleErrors ==
    diedIn # "cycle"

\* C18: a sampling cycle that fails with a bus error pushes nothing into the window and
\* leaves the published value as it was.
C18_FailedCycleDiscarded ==
    [][ (lastOp' = "failed" \/ (lastOp' = "died" /\ diedIn' = "cycle")) =>
           /\ no2AverageList' = no2AverageList
           /\ no2Value' = no2Value
      ]_vars

\* C19: the reset is the first bus transaction and is not issued again; while no
\* reference reading has succeeded the loop stays in its reference-read retry (any
\* failed read is followed by another), no gas-channel read is made and nothing is
\* published; once one has succeeded the reference channel is not read again and the
\* cached value does not change.
C19_StartupOrder ==
    [][ /\ lastBus' = "reset" => lastBus = "reset"
        /\ threadAt = "vref" => threadAt' \in {"vref", "sampling"}
        /\ vref = 0 - 1 => lastBus' # "vgas"
        /\ vref' = 0 - 1 => (no2AverageList' = << >> /\ no2Value' = 0)
        /\ vref # 0 - 1 => (vref' = vref /\ (lastBus' = "vref" => lastBus = "vref"))
      ]_vars

-----------------------------------------------------------------------------
(* Claims about concurrent readers, checked under SpecPublish *)

\* C21: with the thread and the readers interleaved at every statement, the window and
\* the published value are changed only by the steps of the thread; every value stored
\* into the published value is the rounded mean of a complete window (the most recent
\* min(n, C) pushes, insert and pop both done); and every value readNO2 returns is the
\* initial 0 or one of the values so stored, never one derived from a window in the
\* middle of an update.
C21_NoTornRead ==
    [][ /\ (no2AverageList' # no2AverageList \/ no2Value' # no2Value)
              => lastOp' \in {"insert", "pop", "assign"}
        /\ lastOp' = "assign" =>
              /\ Len(no2AverageList') = Min(Len(pushed'), movingAverageWindow)
              /\ no2Value' = RoundDiv(SumSeq(no2AverageList'), Len(no2AverageList'))
        /\ lastOp' = "readNO2" =>
              /\ readResult' = 0 => publishedSeq = << >>
              /\ readResult' # 0 => readResult' \in Range(publishedSeq)
              /\ readResult' = no2Value
      ]_vars

\* a reader ran while the window held one value too many (after the insert, before the
\* pop) and obtained the value published for the previous complete window
C21_Witness ==
    /\ lastOp = "readNO2"
    /\ threadAt = "inserted"
    /\ Len(no2AverageList) > movingAverageWindow
    /\ readResult = publishedSeq[Len(publishedSeq)]
    /\ readResult # RoundDiv(SumSeq(no2AverageList), Len(no2AverageList))

-----------------------------------------------------------------------------
(* Claim about the drivers held after createModules, checked under Spec *)

\* C23: after every createModules call the drivers held (those readAllModules iterates
\* over) are exactly those of the names discovered by that call's probe whose
\* constructor succeeded, each being the instance that call constructed: a module absent
\* from the most recent probe is no longer held.
C23_HeldMatchesLatestProbe ==
    createCalls > 0 =>
       LET ok == Range(moduleNames) \ ctorRaised
       IN  /\ Range(StoreNames(sensorModules)) = ok
           /\ \A i \in DOMAIN sensorModules :
                 sensorModules[i].inst = constructed[sensorModules[i].name]

-----------------------------------------------------------------------------
(* Claim about ModNO2.readSensors, checked under SpecSensors *)

-----------------------------------------------------------------------------
(* Claim about the shared bus, checked under SpecBus *)

\* C22: bus transactions are serialized across drivers: the acquisition thread issues a
\* bus operation only while the driver read by readAllModules is not between the write
\* and the read of a transaction, and a driver read by readAllModules issues a bus
\* operation only while the thread is not inside a channel read (between configure and
\* the final read).
C22_BusSerialized ==
    [][ /\ lastOp' = "adcBus" /\ busTxn'.adc # busTxn.adc =>
              ~(busTxn.fg > 0 /\ TxnOpen(sensorModules[busTxn.fg].name, busTxn.step))
        /\ lastOp' = "fgBus" /\ busTxn'.step # busTxn.step => busTxn.adc = 0
      ]_vars

====
